---- MODULE Spec2Model ----
(***************************************************************************)
(* Mini-Redis (src/server.py): the wire codec of ProtocolHandler and the   *)
(* per-connection loop of Server.connection_handler over the shared store. *)
(*                                                                         *)
(* A byte is a string naming it ("a", "$", "CR", "LF", "xC3", ...); a text *)
(* character likewise ("a", "U+00E9", ...).  A Python value is a record    *)
(* with the same four fields whatever its type, so that values of          *)
(* different types can be compared.                                        *)
(***************************************************************************)
EXTENDS Integers, Sequences, FiniteSets, TLC

----------------------------------------------------------------------------
(* Python values *)

Val(t, n, s, xs) == [t |-> t, n |-> n, s |-> s, xs |-> xs]

Str(s)   == Val("str", 0, s, <<>>)
Bytes(s) == Val("bytes", 0, s, <<>>)
Integer(n) == Val("int", n, <<>>, <<>>)
None     == Val("NoneType", 0, <<>>, <<>>)
Float    == Val("float", 0, <<>>, <<>>)
\* Error = namedtuple('Error', ('message',)); the message is text
Error(msg) == Val("Error", 0, msg, <<>>)
List(xs)  == Val("list", 0, <<>>, xs)
Tuple(xs) == Val("tuple", 0, <<>>, xs)
\* a dict holds its items in insertion order, flattened: <<k1, v1, k2, v2, ...>>
Dict(kvs) == Val("dict", 0, <<>>, kvs)

\* list and dict are unhashable: using one as a dict key raises TypeError
Hashable(v) == v.t \notin {"list", "dict"}

----------------------------------------------------------------------------
(* Text and bytes *)

Digits == <<"0", "1", "2", "3", "4", "5", "6", "7", "8", "9">>

IsDigit(b) == \E i \in 1..10 : Digits[i] = b

DigitVal(b) == (CHOOSE i \in 1..10 : Digits[i] = b) - 1

AsciiLower == <<"a", "b", "c", "d", "e", "f", "g", "h", "i", "j", "k", "l", "m",
                "n", "o", "p", "q", "r", "s", "t", "u", "v", "w", "x", "y", "z">>

AsciiUpper == <<"A", "B", "C", "D", "E", "F", "G", "H", "I", "J", "K", "L", "M",
                "N", "O", "P", "Q", "R", "S", "T", "U", "V", "W", "X", "Y", "Z">>

\* the bytes that are not ASCII: the two bytes of U+00E9 / U+00C9 in UTF-8,
\* and a lone continuation byte
NonAscii == {"xC3", "xA9", "x89", "x80"}

\* str.upper() of one character
UpperChar(c) ==
  IF \E i \in 1..26 : AsciiLower[i] = c
    THEN AsciiUpper[CHOOSE i \in 1..26 : AsciiLower[i] = c]
    ELSE IF c = "U+00E9" THEN "U+00C9" ELSE c

\* str.upper() that leaves every character as it is
upper_keeps_case(s) == s

upper(s) == [i \in 1..Len(s) |-> UpperChar(s[i])]

\* str.encode("utf-8")
RECURSIVE encode(_)
encode(s) ==
  IF s = <<>> THEN <<>>
  ELSE (IF s[1] = "U+00E9" THEN <<"xC3", "xA9">>
        ELSE IF s[1] = "U+00C9" THEN <<"xC3", "x89">>
        ELSE <<s[1]>>) \o encode(Tail(s))

\* bytes.decode("utf-8", errors = "strict"): ok is FALSE for UnicodeDecodeError
RECURSIVE decode(_)
decode(b) ==
  IF b = <<>> THEN [ok |-> TRUE, s |-> <<>>]
  ELSE IF b[1] \notin NonAscii
    THEN LET r == decode(Tail(b))
         IN  [ok |-> r.ok, s |-> IF r.ok THEN <<b[1]>> \o r.s ELSE <<>>]
  ELSE IF b[1] = "xC3" /\ Len(b) >= 2 /\ b[2] \in {"xA9", "x89"}
    THEN LET r == decode(SubSeq(b, 3, Len(b)))
         IN  [ok |-> r.ok,
              s  |-> IF r.ok
                       THEN <<IF b[2] = "xA9" THEN "U+00E9" ELSE "U+00C9">> \o r.s
                       ELSE <<>>]
  ELSE [ok |-> FALSE, s |-> <<>>]

\* bytes.rstrip(b"\r\n"): drops every trailing CR and LF
RECURSIVE rstrip(_)
rstrip(b) ==
  IF b # <<>> /\ b[Len(b)] \in {"CR", "LF"}
    THEN rstrip(SubSeq(b, 1, Len(b) - 1))
    ELSE b

Whitespace == {" ", "TAB", "CR", "LF"}

RECURSIVE lstripWs(_)
lstripWs(s) == IF s # <<>> /\ s[1] \in Whitespace THEN lstripWs(Tail(s)) ELSE s

RECURSIVE rstripWs(_)
rstripWs(s) ==
  IF s # <<>> /\ s[Len(s)] \in Whitespace
    THEN rstripWs(SubSeq(s, 1, Len(s) - 1))
    ELSE s

\* the length of the first token of s (s starts with no whitespace)
RECURSIVE TokenLen(_)
TokenLen(s) == IF s = <<>> \/ s[1] \in Whitespace THEN 0 ELSE 1 + TokenLen(Tail(s))

\* str.split(): the runs of non-whitespace, as a sequence of texts
RECURSIVE split(_)
split(s) ==
  LET t == lstripWs(s)
      n == TokenLen(t)
  IN  IF t = <<>> THEN <<>>
      ELSE <<SubSeq(t, 1, n)>> \o split(SubSeq(t, n + 1, Len(t)))

RECURSIVE DigitsVal(_)
DigitsVal(d) ==
  IF d = <<>> THEN 0 ELSE 10 * DigitsVal(SubSeq(d, 1, Len(d) - 1)) + DigitVal(d[Len(d)])

\* int(b): optional surrounding whitespace, an optional sign, one or more
\* digits; ok is FALSE for ValueError
int(b) ==
  LET t == rstripWs(lstripWs(b))
      signed == t # <<>> /\ t[1] \in {"+", "-"}
      d == IF signed THEN Tail(t) ELSE t
  IN  IF d # <<>> /\ \A i \in 1..Len(d) : IsDigit(d[i])
        THEN [ok |-> TRUE,
              n  |-> IF signed /\ t[1] = "-" THEN 0 - DigitsVal(d) ELSE DigitsVal(d)]
        ELSE [ok |-> FALSE, n |-> 0]

RECURSIVE NatBytes(_)
NatBytes(n) ==
  IF n < 10 THEN <<Digits[n + 1]>> ELSE NatBytes(n \div 10) \o <<Digits[(n % 10) + 1]>>

\* b"%d" % n
IntBytes(n) == IF n < 0 THEN <<"-">> \o NatBytes(0 - n) ELSE NatBytes(n)

CRLF == <<"CR", "LF">>

----------------------------------------------------------------------------
(* The socket file: buf holds the bytes received and not yet read, eof says *)
(* the peer has closed.  A read that needs bytes the peer has not sent, and *)
(* may still send, blocks.                                                  *)

Res(k, v, rest) == [k |-> k, v |-> v, rest |-> rest]

\* the place of the first LF of buf, 0 when it has none
RECURSIVE FirstLF(_)
FirstLF(buf) ==
  IF buf = <<>> THEN 0
  ELSE IF buf[1] = "LF" THEN 1
  ELSE LET i == FirstLF(Tail(buf)) IN IF i = 0 THEN 0 ELSE i + 1

\* socket_file.readline(): up to and including the first LF, or up to the end
\* of the stream
readline(buf, eof) ==
  LET i == FirstLF(buf)
  IN  IF i > 0 THEN [k |-> "ok", data |-> SubSeq(buf, 1, i), rest |-> SubSeq(buf, i + 1, Len(buf))]
      ELSE IF eof THEN [k |-> "ok", data |-> buf, rest |-> <<>>]
      ELSE [k |-> "block", data |-> <<>>, rest |-> buf]

\* socket_file.read(n): n bytes, fewer at the end of the stream; everything up
\* to the end of the stream for n = -1; ValueError for n < -1
read(buf, eof, n) ==
  IF n < -1 THEN [k |-> "ValueError", data |-> <<>>, rest |-> buf]
  ELSE IF n = -1
    THEN IF eof THEN [k |-> "ok", data |-> buf, rest |-> <<>>]
         ELSE [k |-> "block", data |-> <<>>, rest |-> buf]
  ELSE IF Len(buf) >= n
    THEN [k |-> "ok", data |-> SubSeq(buf, 1, n), rest |-> SubSeq(buf, n + 1, Len(buf))]
  ELSE IF eof THEN [k |-> "ok", data |-> buf, rest |-> <<>>]
  ELSE [k |-> "block", data |-> <<>>, rest |-> buf]

----------------------------------------------------------------------------
(* ProtocolHandler: the decoder.  A result is [k, v, rest]: k is "ok" with  *)
(* the value v, or the name of the exception raised, or "block"; rest is    *)
(* what is left unread.                                                     *)

BadRequest == <<"B", "a", "d", " ", "R", "e", "q", "u", "e", "s", "t">>

\* the keys of self.handlers
handlers == {"+", "-", ":", "$", "*", "%"}

handle_simple_string(buf, eof) ==
  LET l == readline(buf, eof)
      d == decode(rstrip(l.data))
  IN  IF l.k = "block" THEN Res("block", None, buf)
      ELSE IF ~d.ok THEN Res("UnicodeDecodeError", None, l.rest)
      ELSE Res("ok", Str(d.s), l.rest)

handle_error(buf, eof) ==
  LET l == readline(buf, eof)
      d == decode(rstrip(l.data))
  IN  IF l.k = "block" THEN Res("block", None, buf)
      ELSE IF ~d.ok THEN Res("UnicodeDecodeError", None, l.rest)
      ELSE Res("ok", Error(d.s), l.rest)

handle_integer(buf, eof) ==
  LET l == readline(buf, eof)
      n == int(rstrip(l.data))
  IN  IF l.k = "block" THEN Res("block", None, buf)
      ELSE IF ~n.ok THEN Res("ValueError", None, l.rest)
      ELSE Res("ok", Integer(n.n), l.rest)

handle_string(buf, eof) ==
  LET l == readline(buf, eof)
      length == int(rstrip(l.data))
      r == read(l.rest, eof, length.n + 2)
      \* data = socket_file.read(length)[:-2]
      data == SubSeq(r.data, 1, Len(r.data) - 2)
      d == decode(data)
  IN  IF l.k = "block" THEN Res("block", None, buf)
      ELSE IF ~length.ok THEN Res("ValueError", None, l.rest)
      ELSE IF length.n = -1 THEN Res("ok", None, l.rest)
      ELSE IF r.k = "block" THEN Res("block", None, buf)
      ELSE IF r.k # "ok" THEN Res(r.k, None, r.rest)
      ELSE IF ~d.ok THEN Res("UnicodeDecodeError", None, r.rest)
      ELSE Res("ok", Str(d.s), r.rest)

\* d[k] = v on the flattened items of a dict: a key already there keeps its
\* place and takes the new value
DictSet(kvs, k, v) ==
  IF \E i \in 1..Len(kvs) : i % 2 = 1 /\ kvs[i] = k
    THEN LET i == CHOOSE i \in 1..Len(kvs) : i % 2 = 1 /\ kvs[i] = k
         IN  [kvs EXCEPT ![i + 1] = v]
    ELSE kvs \o <<k, v>>

\* dict(zip(elements[::2], elements[1::2])): ok is FALSE for the TypeError of
\* an unhashable key
RECURSIVE dict_zip(_, _)
dict_zip(elements, acc) ==
  IF Len(elements) < 2 THEN [ok |-> TRUE, kvs |-> acc]
  ELSE IF ~Hashable(elements[1]) THEN [ok |-> FALSE, kvs |-> acc]
  ELSE dict_zip(SubSeq(elements, 3, Len(elements)), DictSet(acc, elements[1], elements[2]))

RECURSIVE handle_request(_, _)
RECURSIVE read_elements(_, _, _)

\* [self.handle_request(socket_file) for _ in range(n)], as a list
read_elements(buf, eof, n) ==
  IF n <= 0 THEN Res("ok", List(<<>>), buf)
  ELSE LET h == handle_request(buf, eof)
       IN  IF h.k # "ok" THEN h
           ELSE LET t == read_elements(h.rest, eof, n - 1)
                IN  IF t.k # "ok" THEN t
                    ELSE Res("ok", List(<<h.v>> \o t.v.xs), t.rest)

handle_array(buf, eof) ==
  LET l == readline(buf, eof)
      num_elements == int(rstrip(l.data))
      e == read_elements(l.rest, eof, num_elements.n)
  IN  IF l.k = "block" THEN Res("block", None, buf)
      ELSE IF ~num_elements.ok THEN Res("ValueError", None, l.rest)
      ELSE IF e.k = "block" THEN Res("block", None, buf)
      ELSE e

handle_dict(buf, eof) ==
  LET l == readline(buf, eof)
      num_items == int(rstrip(l.data))
      e == read_elements(l.rest, eof, num_items.n * 2)
      d == dict_zip(e.v.xs, <<>>)
  IN  IF l.k = "block" THEN Res("block", None, buf)
      ELSE IF ~num_items.ok THEN Res("ValueError", None, l.rest)
      ELSE IF e.k = "block" THEN Res("block", None, buf)
      ELSE IF e.k # "ok" THEN e
      ELSE IF ~d.ok THEN Res("TypeError", None, e.rest)
      ELSE Res("ok", Dict(d.kvs), e.rest)

\* handle_request without the test for an empty read: the empty tag is then
\* looked up in self.handlers like any other
handle_request_no_eof_test(buf, eof) ==
  IF buf = <<>>
    THEN IF eof THEN Res("CommandError", Str(BadRequest), buf) ELSE Res("block", None, buf)
  ELSE LET first_byte == buf[1]
           rest == Tail(buf)
       IN  IF first_byte \in NonAscii THEN Res("UnicodeDecodeError", None, rest)
           ELSE IF first_byte \notin handlers
             THEN Res("CommandError", Str(BadRequest), rest)
           ELSE LET r == CASE first_byte = "+" -> handle_simple_string(rest, eof)
                           [] first_byte = "-" -> handle_error(rest, eof)
                           [] first_byte = ":" -> handle_integer(rest, eof)
                           [] first_byte = "$" -> handle_string(rest, eof)
                           [] first_byte = "*" -> handle_array(rest, eof)
                           [] first_byte = "%" -> handle_dict(rest, eof)
                IN  IF r.k = "block" THEN Res("block", None, buf) ELSE r

handle_request(buf, eof) ==
  IF buf = <<>>
    THEN IF eof THEN Res("Disconnect", None, buf) ELSE Res("block", None, buf)
  ELSE LET first_byte == buf[1]
           rest == Tail(buf)
       IN  IF first_byte \in NonAscii THEN Res("UnicodeDecodeError", None, rest)
           ELSE IF first_byte \notin handlers
             THEN Res("CommandError", Str(BadRequest), rest)
           ELSE LET r == CASE first_byte = "+" -> handle_simple_string(rest, eof)
                           [] first_byte = "-" -> handle_error(rest, eof)
                           [] first_byte = ":" -> handle_integer(rest, eof)
                           [] first_byte = "$" -> handle_string(rest, eof)
                           [] first_byte = "*" -> handle_array(rest, eof)
                           [] first_byte = "%" -> handle_dict(rest, eof)
                IN  IF r.k = "block" THEN Res("block", None, buf) ELSE r

----------------------------------------------------------------------------
(* ProtocolHandler: the encoder.  A result is [k, bytes]: k is "ok", or     *)
(* "CommandError" for a type it does not recognise.                         *)

RECURSIVE write(_)
RECURSIVE write_items(_)

\* for item in data: self.write(buf, item)
write_items(xs) ==
  IF xs = <<>> THEN [k |-> "ok", bytes |-> <<>>]
  ELSE LET h == write(xs[1])
           t == write_items(Tail(xs))
       IN  IF h.k # "ok" THEN [k |-> h.k, bytes |-> <<>>]
           ELSE IF t.k # "ok" THEN [k |-> t.k, bytes |-> <<>>]
           ELSE [k |-> "ok", bytes |-> h.bytes \o t.bytes]

write(data) ==
  LET raw == IF data.t = "str" THEN encode(data.s) ELSE data.s
      items == write_items(data.xs)
  IN  CASE data.t \in {"str", "bytes"} ->
             [k |-> "ok", bytes |-> <<"$">> \o IntBytes(Len(raw)) \o CRLF \o raw \o CRLF]
        [] data.t = "int" ->
             [k |-> "ok", bytes |-> <<":">> \o IntBytes(data.n) \o CRLF]
        [] data.t = "Error" ->
             [k |-> "ok", bytes |-> <<"-">> \o encode(data.s) \o CRLF]
        [] data.t \in {"list", "tuple"} ->
             IF items.k # "ok" THEN items
             ELSE [k |-> "ok", bytes |-> <<"*">> \o IntBytes(Len(data.xs)) \o CRLF \o items.bytes]
        [] data.t = "dict" ->
             IF items.k # "ok" THEN items
             ELSE [k |-> "ok",
                   bytes |-> <<"%">> \o IntBytes(Len(data.xs) \div 2) \o CRLF \o items.bytes]
        [] data.t = "NoneType" ->
             [k |-> "ok", bytes |-> <<"$", "-", "1">> \o CRLF]
        [] OTHER -> [k |-> "CommandError", bytes |-> <<>>]

----------------------------------------------------------------------------
(* Server: the store and the command handlers.  An outcome is [k, v, kv]:   *)
(* k is "ok" with the return value v, or the name of the exception raised   *)
(* (v its message for CommandError); kv is the store afterwards.            *)

RequestMustBe == <<"R", "e", "q", "u", "e", "s", "t", " ", "m", "u", "s", "t", " ", "b", "e", " ", "a", " ", "l", "i", "s", "t", " ", "o", "r", " ", "s", "i", "m", "p", "l", "e", " ", "s", "t", "r", "i", "n", "g">>

MissingCommand == <<"M", "i", "s", "s", "i", "n", "g", " ", "c", "o", "m", "m", "a", "n", "d">>

UnrecognizedCommand == <<"U", "n", "r", "e", "c", "o", "g", "n", "i", "z", "e", "d", " ", "c", "o", "m", "m", "a", "n", "d", ":", " ">>

MsetEven == <<"M", "S", "E", "T", " ", "r", "e", "q", "u", "i", "r", "e", "s", " ", "a", "n", " ", "e", "v", "e", "n", " ", "n", "u", "m", "b", "e", "r", " ", "o", "f", " ", "a", "r", "g", "u", "m", "e", "n", "t", "s">>

Out(k, v, store) == [k |-> k, v |-> v, kv |-> store]

\* self._kv = {}
EmptyStore == [x \in {} |-> None]

\* self._kv[key] = value
StoreSet(store, key, value) ==
  [x \in (DOMAIN store) \cup {key} |-> IF x = key THEN value ELSE store[x]]

\* del self._kv[key]
StoreDel(store, key) == [x \in (DOMAIN store) \ {key} |-> store[x]]

\* self._kv.get(key)
StoreGet(store, key) == IF key \in DOMAIN store THEN store[key] ELSE None

get(args, store) ==
  IF Len(args) # 1 \/ ~Hashable(args[1]) THEN Out("TypeError", None, store)
  ELSE Out("ok", StoreGet(store, args[1]), store)

\* set that returns 1.0
set_returns_float(args, store) ==
  IF Len(args) # 2 \/ ~Hashable(args[1]) THEN Out("TypeError", None, store)
  ELSE Out("ok", Float, StoreSet(store, args[1], args[2]))

set(args, store) ==
  IF Len(args) # 2 \/ ~Hashable(args[1]) THEN Out("TypeError", None, store)
  ELSE Out("ok", Integer(1), StoreSet(store, args[1], args[2]))

delete(args, store) ==
  IF Len(args) # 1 \/ ~Hashable(args[1]) THEN Out("TypeError", None, store)
  ELSE IF args[1] \in DOMAIN store
    THEN Out("ok", Integer(1), StoreDel(store, args[1]))
    ELSE Out("ok", Integer(0), store)

\* flush that counts the keys and leaves them in place
flush_counts_only(args, store) ==
  IF Len(args) # 0 THEN Out("TypeError", None, store)
  ELSE Out("ok", Integer(Cardinality(DOMAIN store)), store)

flush(args, store) ==
  IF Len(args) # 0 THEN Out("TypeError", None, store)
  ELSE Out("ok", Integer(Cardinality(DOMAIN store)), EmptyStore)

mget(args, store) ==
  IF \E i \in 1..Len(args) : ~Hashable(args[i]) THEN Out("TypeError", None, store)
  ELSE Out("ok", List([i \in 1..Len(args) |-> StoreGet(store, args[i])]), store)

\* for key, value in pairs: self._kv[key] = value
RECURSIVE mset_pairs(_, _, _)
mset_pairs(items, n, store) ==
  IF Len(items) < 2 THEN Out("ok", Integer(n), store)
  ELSE IF ~Hashable(items[1]) THEN Out("TypeError", None, store)
  ELSE mset_pairs(SubSeq(items, 3, Len(items)), n + 1, StoreSet(store, items[1], items[2]))

\* mset with the pairs written before the count is looked at
mset_checks_late(args, store) ==
  LET r == mset_pairs(args, 0, store)
  IN  IF Len(args) % 2 # 0 THEN Out("CommandError", Str(MsetEven), r.kv) ELSE r

\* mset that returns the number of keys it has bound
mset_counts_keys(args, store) ==
  LET r == mset_pairs(args, 0, store)
  IN  IF Len(args) % 2 # 0 THEN Out("CommandError", Str(MsetEven), store)
      ELSE IF r.k # "ok" THEN r
      ELSE Out("ok", Integer(Cardinality({args[i] : i \in {j \in 1..Len(args) : j % 2 = 1}})), r.kv)

mset(args, store) ==
  IF Len(args) % 2 # 0 THEN Out("CommandError", Str(MsetEven), store)
  ELSE mset_pairs(args, 0, store)

\* the keys of self._commands
get_commands == {<<"G", "E", "T">>, <<"S", "E", "T">>, <<"D", "E", "L", "E", "T", "E">>,
                 <<"F", "L", "U", "S", "H">>, <<"M", "G", "E", "T">>, <<"M", "S", "E", "T">>}

\* self._commands[command](*args)
call(command, args, store) ==
  CASE command = <<"G", "E", "T">> -> get(args, store)
    [] command = <<"S", "E", "T">> -> set(args, store)
    [] command = <<"D", "E", "L", "E", "T", "E">> -> delete(args, store)
    [] command = <<"F", "L", "U", "S", "H">> -> flush(args, store)
    [] command = <<"M", "G", "E", "T">> -> mget(args, store)
    [] command = <<"M", "S", "E", "T">> -> mset(args, store)

\* x.decode("utf-8") of a bytes element, the element itself otherwise
DecodeArg(x) == IF x.t = "bytes" THEN Str(decode(x.s).s) ELSE x

ArgDecodes(x) == x.t # "bytes" \/ decode(x.s).ok

get_response(data, store) ==
  LET \* the request as text, when it is not a list
      text == IF data.t = "bytes" THEN decode(data.s) ELSE [ok |-> data.t = "str", s |-> data.s]
      tokens == split(text.s)
      request == IF data.t = "list" THEN data.xs
                 ELSE [i \in 1..Len(tokens) |-> Str(tokens[i])]
      cmd == DecodeArg(request[1])
      command == upper(cmd.s)
      rest == Tail(request)
      args == [i \in 1..Len(rest) |-> DecodeArg(rest[i])]
  IN  IF data.t # "list" /\ ~text.ok THEN Out("CommandError", Str(RequestMustBe), store)
      ELSE IF request = <<>> THEN Out("CommandError", Str(MissingCommand), store)
      ELSE IF ~ArgDecodes(request[1]) THEN Out("UnicodeDecodeError", None, store)
      ELSE IF cmd.t # "str" THEN Out("AttributeError", None, store)
      ELSE IF command \notin get_commands
        THEN Out("CommandError", Str(UnrecognizedCommand \o command), store)
      ELSE IF \E i \in 1..Len(rest) : ~ArgDecodes(rest[i])
        THEN Out("UnicodeDecodeError", None, store)
      ELSE call(command, args, store)

----------------------------------------------------------------------------
(* Bounds *)

\* requests one peer sends on its connection
MaxRequests == 2

\* one connection is opened by a peer that may send any bytes, the other by
\* a Client
Conns == {"peer", "client"}

----------------------------------------------------------------------------
(* What is sent.  Client.execute sends Request(args).                       *)

GET == <<"G", "E", "T">>
SET == <<"S", "E", "T">>
DELETE == <<"D", "E", "L", "E", "T", "E">>
FLUSH == <<"F", "L", "U", "S", "H">>
MGET == <<"M", "G", "E", "T">>
MSET == <<"M", "S", "E", "T">>

\* a command the registry does not have
FOO == <<"F", "O", "O">>

\* Client.execute(*args): the bytes of write_response(self._fh, list(args))
Request(args) == write(List(args)).bytes

\* a SimpleString frame
Simple(text) == <<"+">> \o encode(text) \o CRLF

\* an Array header
ArrayOf(n) == <<"*">> \o IntBytes(n) \o CRLF

Bulk(text) == write(Str(text)).bytes

K == Str(<<"k">>)
J == Str(<<"j">>)
V == Str(<<"v">>)
W == Str(<<"w">>)

\* Client.get('k'), Client.set('k', 'v'), Client.flush()
ClientFrames ==
  { Request(<<Str(GET), K>>),
    Request(<<Str(SET), K, V>>),
    Request(<<Str(FLUSH)>>) }

WellFormedFrames ==
  { Request(<<Str(GET), K>>),
    Request(<<Str(SET), K, V>>),
    Request(<<Str(DELETE), K>>),
    Request(<<Str(FLUSH)>>),
    Request(<<Str(MGET), K, J>>),
    Request(<<Str(MSET), K, W, J, W>>),
    Simple(<<"g", "e", "t", " ", "k">>),
    Bulk(<<"S", "E", "T", " ", "j", " ", "w">>),
    \* an odd number of arguments to MSET
    Request(<<Str(MSET), K, V, J>>),
    \* no such command, no command, not a list and not text
    Request(<<Str(<<"F", "O", "O">>)>>),
    ArrayOf(0),
    <<":", "5">> \o CRLF,
    \* the wrong number of arguments
    Request(<<Str(GET)>>),
    Request(<<Str(SET), K>>),
    Simple(<<"F", "L", "U", "S", "H", " ", "k">>),
    \* a command that is not text, a key that is a list
    ArrayOf(1) \o <<":", "5">> \o CRLF,
    ArrayOf(2) \o Bulk(GET) \o ArrayOf(0),
    \* a pair written before an unhashable key is met
    ArrayOf(5) \o Bulk(MSET) \o Bulk(<<"j">>) \o Bulk(<<"w">>) \o ArrayOf(0) \o Bulk(<<"v">>),
    \* a value that arrives as an Error
    ArrayOf(3) \o Bulk(SET) \o Bulk(<<"k">>) \o <<"-", "e">> \o CRLF }

MalformedFrames ==
  { <<"!">>,
    <<"x80">>,
    ArrayOf(2) \o Bulk(GET) \o <<"!">>,
    <<"$", "x">> \o CRLF,
    \* negative lengths
    <<"$", "-", "2">> \o CRLF,
    <<"*", "-", "1">> \o CRLF,
    <<"%", "-", "1">> \o CRLF }

\* frames cut short by the peer's close
TruncatedFrames ==
  { ArrayOf(2) \o Bulk(GET),
    ArrayOf(2) \o Bulk(GET) \o <<"$", "1">> \o CRLF \o <<"k">>,
    <<"+", "G", "E">> }

PeerFrames == WellFormedFrames \cup MalformedFrames \cup TruncatedFrames

Sends(c) == IF c = "client" THEN ClientFrames ELSE PeerFrames

----------------------------------------------------------------------------
(* State *)

VARIABLES
  kv,           \* Server._kv
  max_clients,  \* the size of Server._pool
  pc,           \* per connection: where its connection_handler is
  inbuf,        \* per connection: bytes received and not yet read
  eof,          \* per connection: the peer has closed
  frame,        \* per connection: the bytes the last handle_request read
  data,         \* per connection: the decoded request
  resp,         \* per connection: the response to write
  wire,         \* per connection: the response bytes written since the last read
  exc,          \* per connection: the exception that ended the handler
  nreq,         \* per connection: requests decoded
  nresp,        \* per connection: responses written
  nerr,         \* per connection: CommandErrors caught
  value,        \* codec: a value given to the encoder
  encoded,      \* codec: what write made of it
  decoded,      \* codec: what handle_request made of those bytes
  stage         \* codec: "value", "encoded" or "decoded"

server == <<kv, max_clients, pc, inbuf, eof, frame, data, resp, wire, exc, nreq, nresp, nerr>>

codec == <<value, encoded, decoded, stage>>

vars == <<server, codec>>

Running == {c \in Conns : pc[c] \in {"AWAIT_REQUEST", "HAVE_REQUEST", "DISPATCHED"}}

\* Server.__init__
ServerInit ==
  /\ kv = EmptyStore
  /\ max_clients \in 1..Cardinality(Conns)
  /\ pc = [c \in Conns |-> "QUEUED"]
  /\ inbuf = [c \in Conns |-> <<>>]
  /\ eof = [c \in Conns |-> FALSE]
  /\ frame = [c \in Conns |-> <<>>]
  /\ data = [c \in Conns |-> None]
  /\ resp = [c \in Conns |-> None]
  /\ wire = [c \in Conns |-> <<>>]
  /\ exc = [c \in Conns |-> "none"]
  /\ nreq = [c \in Conns |-> 0]
  /\ nresp = [c \in Conns |-> 0]
  /\ nerr = [c \in Conns |-> 0]

CodecIdle ==
  /\ value = None
  /\ encoded = [k |-> "ok", bytes |-> <<>>]
  /\ decoded = Res("block", None, <<>>)
  /\ stage = "value"

Init == ServerInit /\ CodecIdle

\* spawn without a pool: every connection gets its greenlet at once
spawn_unpooled(c) ==
  /\ pc[c] = "QUEUED"
  /\ pc' = [pc EXCEPT ![c] = "AWAIT_REQUEST"]
  /\ UNCHANGED <<kv, max_clients, inbuf, eof, frame, data, resp, wire, exc, nreq, nresp, nerr>>
  /\ UNCHANGED codec

\* the pool gives the connection a greenlet running connection_handler
spawn(c) ==
  /\ pc[c] = "QUEUED"
  /\ Cardinality(Running) < max_clients
  /\ pc' = [pc EXCEPT ![c] = "AWAIT_REQUEST"]
  /\ UNCHANGED <<kv, max_clients, inbuf, eof, frame, data, resp, wire, exc, nreq, nresp, nerr>>
  /\ UNCHANGED codec

\* the greenlet ends: by break, or by an exception nothing catches
Ends(c, how) ==
  /\ pc' = [pc EXCEPT ![c] = "CLOSED"]
  /\ exc' = [exc EXCEPT ![c] = how]

\* connection_handler_read with CommandError caught around handle_request as
\* it is around get_response
connection_handler_read_catches(c) ==
  /\ pc[c] = "AWAIT_REQUEST"
  /\ \E chunk \in Sends(c) \cup {<<>>} :
       /\ eof[c] => chunk = <<>>
       /\ chunk # <<>> => nreq[c] < MaxRequests
       /\ LET buf == inbuf[c] \o chunk
              closes == handle_request(buf, eof[c]).k = "block"
              r == handle_request(buf, eof[c] \/ closes)
          IN  /\ eof' = [eof EXCEPT ![c] = @ \/ closes]
              /\ inbuf' = [inbuf EXCEPT ![c] = r.rest]
              /\ frame' = [frame EXCEPT ![c] = SubSeq(buf, 1, Len(buf) - Len(r.rest))]
              /\ IF r.k = "ok"
                   THEN /\ data' = [data EXCEPT ![c] = r.v]
                        /\ nreq' = [nreq EXCEPT ![c] = @ + 1]
                        /\ pc' = [pc EXCEPT ![c] = "HAVE_REQUEST"]
                        /\ UNCHANGED <<exc, resp>>
                   ELSE IF r.k = "CommandError"
                   THEN /\ resp' = [resp EXCEPT ![c] = Error(r.v.s)]
                        /\ nreq' = [nreq EXCEPT ![c] = @ + 1]
                        /\ pc' = [pc EXCEPT ![c] = "DISPATCHED"]
                        /\ UNCHANGED <<exc, data>>
                   ELSE /\ Ends(c, r.k)
                        /\ UNCHANGED <<data, nreq, resp>>
  /\ wire' = [wire EXCEPT ![c] = <<>>]
  /\ UNCHANGED <<kv, max_clients, nresp, nerr>>
  /\ UNCHANGED codec

\* read_request on a server whose store goes with the session: the store is
\* emptied when the handler ends
read_request_drops_store(c, chunks, more) ==
  /\ pc[c] = "AWAIT_REQUEST"
  /\ \E chunk \in chunks \cup {<<>>} :
       /\ eof[c] => chunk = <<>>
       /\ chunk # <<>> => more
       /\ LET buf == inbuf[c] \o chunk
              closes == handle_request(buf, eof[c]).k = "block"
              r == handle_request(buf, eof[c] \/ closes)
          IN  /\ eof' = [eof EXCEPT ![c] = @ \/ closes]
              /\ inbuf' = [inbuf EXCEPT ![c] = r.rest]
              /\ frame' = [frame EXCEPT ![c] = SubSeq(buf, 1, Len(buf) - Len(r.rest))]
              /\ IF r.k = "ok"
                   THEN /\ data' = [data EXCEPT ![c] = r.v]
                        /\ nreq' = [nreq EXCEPT ![c] = @ + 1]
                        /\ pc' = [pc EXCEPT ![c] = "HAVE_REQUEST"]
                        /\ exc' = exc
                        /\ kv' = kv
                   ELSE /\ Ends(c, r.k)
                        /\ kv' = EmptyStore
                        /\ UNCHANGED <<data, nreq>>
  /\ wire' = [wire EXCEPT ![c] = <<>>]
  /\ UNCHANGED <<max_clients, resp, nresp, nerr>>
  /\ UNCHANGED codec

\* data = self._protocol.handle_request(socket_file).  chunk is what the peer
\* sends for it, one of chunks while more holds; a read that these bytes
\* leave blocked returns when the peer closes
read_request(c, chunks, more) ==
  /\ pc[c] = "AWAIT_REQUEST"
  /\ \E chunk \in chunks \cup {<<>>} :
       /\ eof[c] => chunk = <<>>
       /\ chunk # <<>> => more
       /\ LET buf == inbuf[c] \o chunk
              closes == handle_request(buf, eof[c]).k = "block"
              r == handle_request(buf, eof[c] \/ closes)
          IN  /\ eof' = [eof EXCEPT ![c] = @ \/ closes]
              /\ inbuf' = [inbuf EXCEPT ![c] = r.rest]
              /\ frame' = [frame EXCEPT ![c] = SubSeq(buf, 1, Len(buf) - Len(r.rest))]
              /\ IF r.k = "ok"
                   THEN /\ data' = [data EXCEPT ![c] = r.v]
                        /\ nreq' = [nreq EXCEPT ![c] = @ + 1]
                        /\ pc' = [pc EXCEPT ![c] = "HAVE_REQUEST"]
                        /\ exc' = exc
                   ELSE /\ Ends(c, r.k)
                        /\ UNCHANGED <<data, nreq>>
  /\ wire' = [wire EXCEPT ![c] = <<>>]
  /\ UNCHANGED <<kv, max_clients, resp, nresp, nerr>>
  /\ UNCHANGED codec

connection_handler_read(c) == read_request(c, Sends(c), nreq[c] < MaxRequests)

\* connection_handler_dispatch without the except clause for CommandError
connection_handler_dispatch_no_except(c) ==
  /\ pc[c] = "HAVE_REQUEST"
  /\ LET r == get_response(data[c], kv)
     IN  /\ kv' = r.kv
         /\ IF r.k = "ok"
              THEN /\ resp' = [resp EXCEPT ![c] = r.v]
                   /\ pc' = [pc EXCEPT ![c] = "DISPATCHED"]
                   /\ exc' = exc
              ELSE /\ Ends(c, r.k)
                   /\ resp' = resp
  /\ frame' = [frame EXCEPT ![c] = <<>>]
  /\ data' = [data EXCEPT ![c] = None]
  /\ UNCHANGED <<max_clients, inbuf, eof, wire, nreq, nresp, nerr>>
  /\ UNCHANGED codec

\* connection_handler_dispatch on a server whose reads block the whole
\* process: nothing is dispatched while another connection waits for bytes
connection_handler_dispatch_behind_reads(c) ==
  /\ pc[c] = "HAVE_REQUEST"
  /\ \A d \in Conns \ {c} : pc[d] # "AWAIT_REQUEST"
  /\ LET r == get_response(data[c], kv)
     IN  /\ kv' = r.kv
         /\ IF r.k \in {"ok", "CommandError"}
              THEN /\ resp' = [resp EXCEPT ![c] = IF r.k = "ok" THEN r.v ELSE Error(r.v.s)]
                   /\ nerr' = [nerr EXCEPT ![c] = IF r.k = "ok" THEN @ ELSE @ + 1]
                   /\ pc' = [pc EXCEPT ![c] = "DISPATCHED"]
                   /\ exc' = exc
              ELSE /\ Ends(c, r.k)
                   /\ UNCHANGED <<resp, nerr>>
  /\ frame' = [frame EXCEPT ![c] = <<>>]
  /\ data' = [data EXCEPT ![c] = None]
  /\ UNCHANGED <<max_clients, inbuf, eof, wire, nreq, nresp>>
  /\ UNCHANGED codec

\* resp = self.get_response(data), or Error(exc.args[0]) for a CommandError
connection_handler_dispatch(c) ==
  /\ pc[c] = "HAVE_REQUEST"
  /\ LET r == get_response(data[c], kv)
     IN  /\ kv' = r.kv
         /\ IF r.k \in {"ok", "CommandError"}
              THEN /\ resp' = [resp EXCEPT ![c] = IF r.k = "ok" THEN r.v ELSE Error(r.v.s)]
                   /\ nerr' = [nerr EXCEPT ![c] = IF r.k = "ok" THEN @ ELSE @ + 1]
                   /\ pc' = [pc EXCEPT ![c] = "DISPATCHED"]
                   /\ exc' = exc
              ELSE /\ Ends(c, r.k)
                   /\ UNCHANGED <<resp, nerr>>
  /\ frame' = [frame EXCEPT ![c] = <<>>]
  /\ data' = [data EXCEPT ![c] = None]
  /\ UNCHANGED <<max_clients, inbuf, eof, wire, nreq, nresp>>
  /\ UNCHANGED codec

\* connection_handler_write with an Error written once in the except clause
\* and once more after it
connection_handler_write_twice(c) ==
  /\ pc[c] = "DISPATCHED"
  /\ \E writable \in BOOLEAN :
       LET w == write(resp[c])
       IN  IF w.k # "ok"
             THEN /\ Ends(c, w.k)
                  /\ UNCHANGED <<wire, nresp>>
           ELSE IF ~writable
             THEN /\ Ends(c, "OSError")
                  /\ UNCHANGED <<wire, nresp>>
           ELSE /\ wire' = [wire EXCEPT ![c] =
                              IF resp[c].t = "Error" THEN w.bytes \o w.bytes ELSE w.bytes]
                /\ nresp' = [nresp EXCEPT ![c] = IF resp[c].t = "Error" THEN @ + 2 ELSE @ + 1]
                /\ pc' = [pc EXCEPT ![c] = "AWAIT_REQUEST"]
                /\ exc' = exc
  /\ resp' = [resp EXCEPT ![c] = None]
  /\ UNCHANGED <<kv, max_clients, inbuf, eof, frame, data, nreq, nerr>>
  /\ UNCHANGED codec

\* self._protocol.write_response(socket_file, resp); writable says whether
\* the socket takes the bytes
connection_handler_write(c) ==
  /\ pc[c] = "DISPATCHED"
  /\ \E writable \in BOOLEAN :
       LET w == write(resp[c])
       IN  IF w.k # "ok"
             THEN /\ Ends(c, w.k)
                  /\ UNCHANGED <<wire, nresp>>
           ELSE IF ~writable
             THEN /\ Ends(c, "OSError")
                  /\ UNCHANGED <<wire, nresp>>
           ELSE /\ wire' = [wire EXCEPT ![c] = w.bytes]
                /\ nresp' = [nresp EXCEPT ![c] = @ + 1]
                /\ pc' = [pc EXCEPT ![c] = "AWAIT_REQUEST"]
                /\ exc' = exc
  /\ resp' = [resp EXCEPT ![c] = None]
  /\ UNCHANGED <<kv, max_clients, inbuf, eof, frame, data, nreq, nerr>>
  /\ UNCHANGED codec

connection_handler(c) ==
  \/ connection_handler_read(c)
  \/ connection_handler_dispatch(c)
  \/ connection_handler_write(c)

Next == \E c \in Conns : spawn(c) \/ connection_handler(c)

Spec == Init /\ [][Next]_vars

\* a request that is answered, one that raises CommandError, one that
\* raises AttributeError, a tag that is none of the six, and a frame cut short
LiveFrames ==
  { Request(<<Str(GET), K>>),
    Request(<<Str(MSET), K, W, J, W>>),
    Request(<<Str(FOO)>>),
    ArrayOf(1) \o <<":", "5">> \o CRLF,
    <<"!">>,
    ArrayOf(2) \o Bulk(GET) }

LiveSends(c) == IF c = "client" THEN ClientFrames ELSE LiveFrames

live_read(c) == read_request(c, LiveSends(c), nreq[c] < MaxRequests)

LiveNext ==
  \E c \in Conns :
    \/ spawn(c)
    \/ live_read(c)
    \/ connection_handler_dispatch(c)
    \/ connection_handler_write(c)

\* the hub runs every greenlet that is ready: a handler that holds a request
\* gets to dispatch it, and one that holds a response gets to write it.  No
\* peer has to send or to close, and no connection has to arrive.
Fairness ==
  \A c \in Conns :
    /\ WF_vars(connection_handler_dispatch(c))
    /\ WF_vars(connection_handler_write(c))

LiveSpec == Init /\ [][LiveNext]_vars /\ Fairness

----------------------------------------------------------------------------
(* The codec on its own: a value is encoded, and the bytes decoded as the   *)
(* whole of a stream.                                                       *)

\* nesting of the values encoded
MaxDepth == 1

\* elements of a list, pairs of a dict
MaxItems == 2

Atoms ==
  { Str(<<>>), Str(<<"a">>), Str(<<"U+00E9", "b">>),
    Bytes(<<"a">>), Bytes(<<"x80">>),
    Integer(0), Integer(-1), Integer(12),
    None, Error(<<"e">>) }

RECURSIVE Values(_)
Values(depth) ==
  IF depth = 0 THEN Atoms
  ELSE LET inner == Values(depth - 1)
           seqs == UNION {[1..n -> inner] : n \in 0..MaxItems}
       IN  inner
             \cup {List(xs) : xs \in seqs}
             \cup {Dict(<<k, v>>) : k \in {a \in Atoms : a.t \in {"str", "int"}}, v \in inner}

CodecInit ==
  /\ ServerInit
  /\ value \in Values(MaxDepth)
  /\ encoded = [k |-> "ok", bytes |-> <<>>]
  /\ decoded = Res("block", None, <<>>)
  /\ stage = "value"

\* buf = BytesIO(); self.write(buf, value)
Encode ==
  /\ stage = "value"
  /\ encoded' = write(value)
  /\ stage' = "encoded"
  /\ UNCHANGED <<value, decoded>>
  /\ UNCHANGED server

\* handle_request on a stream that holds those bytes and then ends
Decode ==
  /\ stage = "encoded"
  /\ encoded.k = "ok"
  /\ decoded' = handle_request(encoded.bytes, TRUE)
  /\ stage' = "decoded"
  /\ UNCHANGED <<value, encoded>>
  /\ UNCHANGED server

CodecNext == Encode \/ Decode

CodecSpec == CodecInit /\ [][CodecNext]_vars

----------------------------------------------------------------------------
(* One Client that sets, gets, flushes and gets again, while another calls  *)
(* the commands of its own.                                                 *)

\* Client.set('k', 'v'), Client.get('k'), Client.flush(), Client.get('k')
Script ==
  << Request(<<Str(SET), K, V>>),
     Request(<<Str(GET), K>>),
     Request(<<Str(FLUSH)>>),
     Request(<<Str(GET), K>>) >>

\* Client.get, mget, set, mset (one with a key given twice), delete of the
\* other
OtherFrames ==
  { Request(<<Str(GET), K>>),
    Request(<<Str(MGET), J, K>>),
    Request(<<Str(SET), J, V>>),
    Request(<<Str(MSET), K, W, J, W>>),
    Request(<<Str(MSET), K, V, K, W>>),
    Request(<<Str(DELETE), K>>) }

\* what a connection may send next: the scripted one the next call of Script
ScriptSends(c) ==
  IF c = "client"
    THEN IF nreq[c] < Len(Script) THEN {Script[nreq[c] + 1]} ELSE {}
    ELSE OtherFrames

ScriptMore(c) == IF c = "client" THEN nreq[c] < Len(Script) ELSE nreq[c] < MaxRequests

script_read(c) == read_request(c, ScriptSends(c), ScriptMore(c))

ScenarioNext ==
  \E c \in Conns :
    \/ spawn(c)
    \/ script_read(c)
    \/ connection_handler_dispatch(c)
    \/ connection_handler_write(c)

ScenarioSpec == Init /\ [][ScenarioNext]_vars

----------------------------------------------------------------------------
(* Requests as text and as arrays, in any letter case.                      *)

\* a request frame, the request it decodes to, and its tokens as an Array of
\* BulkStrings with the command as the registry spells it
Form(bytes, request, tokens) == [frame |-> bytes, data |-> request, args |-> tokens]

Forms ==
  {
    Form(Simple(<<"g", "e", "t", " ", "k">>), Str(<<"g", "e", "t", " ", "k">>),
         <<Str(GET), K>>),
    Form(Simple(<<"S", "e", "t", " ", "k", " ", "v">>), Str(<<"S", "e", "t", " ", "k", " ", "v">>),
         <<Str(SET), K, V>>),
    Form(Simple(<<"f", "l", "u", "s", "h">>), Str(<<"f", "l", "u", "s", "h">>),
         <<Str(FLUSH)>>),
    Form(Simple(<<" ", "m", "G", "e", "t", " ", " ", "k", " ", "j", " ">>), Str(<<" ", "m", "G", "e", "t", " ", " ", "k", " ", "j", " ">>),
         <<Str(MGET), K, J>>),
    Form(Simple(<<"f", "o", "o">>), Str(<<"f", "o", "o">>),
         <<Str(FOO)>>),
    Form(Simple(<<>>), Str(<<>>),
         <<>>),
    Form(Simple(<<"g", "e", "t">>), Str(<<"g", "e", "t">>),
         <<Str(GET)>>),
    Form(Bulk(<<"g", "e", "t", " ", "k">>), Str(<<"g", "e", "t", " ", "k">>),
         <<Str(GET), K>>),
    Form(Bulk(<<"d", "e", "l", "e", "t", "e", " ", "k">>), Str(<<"d", "e", "l", "e", "t", "e", " ", "k">>),
         <<Str(DELETE), K>>),
    Form(Bulk(<<"m", "s", "e", "t", " ", "k", " ", "w", " ", "j", " ", "w">>), Str(<<"m", "s", "e", "t", " ", "k", " ", "w", " ", "j", " ", "w">>),
         <<Str(MSET), K, W, J, W>>),
    Form(Bulk(<<"M", "s", "e", "t", " ", "k", " ", "w", " ", "j">>), Str(<<"M", "s", "e", "t", " ", "k", " ", "w", " ", "j">>),
         <<Str(MSET), K, W, J>>),
    Form(Bulk(<<>>), Str(<<>>),
         <<>>),
    Form(Request(<<Str(<<"g", "e", "t">>), K>>),
         List(<<Str(<<"g", "e", "t">>), K>>),
         <<Str(GET), K>>),
    Form(Request(<<Str(<<"D", "e", "l", "e", "t", "e">>), K>>),
         List(<<Str(<<"D", "e", "l", "e", "t", "e">>), K>>),
         <<Str(DELETE), K>>),
    Form(Request(<<Str(<<"m", "S", "E", "T">>), K, W, J, W>>),
         List(<<Str(<<"m", "S", "E", "T">>), K, W, J, W>>),
         <<Str(MSET), K, W, J, W>>),
    Form(Request(<<Str(<<"F", "L", "U", "S", "H">>)>>),
         List(<<Str(<<"F", "L", "U", "S", "H">>)>>),
         <<Str(FLUSH)>>) }

FormFrames == {f.frame : f \in Forms}

\* the client sets and flushes the key the forms read and delete
FormSends(c) == IF c = "client" THEN ClientFrames ELSE FormFrames

forms_read(c) == read_request(c, FormSends(c), nreq[c] < MaxRequests)

FormsNext ==
  \E c \in Conns :
    \/ spawn(c)
    \/ forms_read(c)
    \/ connection_handler_dispatch(c)
    \/ connection_handler_write(c)

FormsSpec == Init /\ [][FormsNext]_vars

----------------------------------------------------------------------------
(* Properties *)

\* every step of Spec is a step of one connection, and changes its pc
Moves(c) == pc'[c] # pc[c]

OthersUntouched(c) ==
  \A d \in Conns \ {c} :
    /\ pc'[d] = pc[d] /\ inbuf'[d] = inbuf[d] /\ eof'[d] = eof[d]
    /\ frame'[d] = frame[d] /\ data'[d] = data[d] /\ resp'[d] = resp[d]
    /\ wire'[d] = wire[d] /\ exc'[d] = exc[d]
    /\ nreq'[d] = nreq[d] /\ nresp'[d] = nresp[d]

\* the ErrorValue frame of a message
ErrorFrame(msg) == <<"-">> \o encode(msg) \o CRLF


\* the message of the CommandError a request runs into, <<>> for a request
\* that is none of the cases
CommandErrorOf(d) ==
  CASE d = List(<<Str(FOO)>>) -> UnrecognizedCommand \o FOO
    [] d = List(<<>>) -> MissingCommand
    [] d = Integer(5) -> RequestMustBe
    [] d = List(<<Str(MSET), K, V, J>>) -> MsetEven
    [] OTHER -> <<>>

C1_Dispatch(c) ==
  (pc[c] = "HAVE_REQUEST" /\ Moves(c) /\ CommandErrorOf(data[c]) # <<>>)
    => /\ pc'[c] = "DISPATCHED"
       /\ exc'[c] = "none"
       /\ resp'[c] = Error(CommandErrorOf(data[c]))
       /\ nerr'[c] = nerr[c] + 1

C1_Write(c) ==
  (pc[c] = "DISPATCHED" /\ Moves(c) /\ resp[c].t = "Error")
    => \/ /\ pc'[c] = "AWAIT_REQUEST"
          /\ exc'[c] = "none"
          /\ wire'[c] = ErrorFrame(resp[c].s)
          /\ nresp'[c] = nresp[c] + 1
       \/ /\ pc'[c] = "CLOSED"
          /\ exc'[c] = "OSError"

C1_Next(c) ==
  (pc[c] = "HAVE_REQUEST" /\ Moves(c) /\ nerr[c] > 0 /\ data[c] = List(<<Str(GET), K>>))
    => /\ pc'[c] = "DISPATCHED"
       /\ resp'[c] = StoreGet(kv, K)
       /\ kv' = kv

\* C1: a request whose processing raises CommandError (no such command, no
\* command, neither a list nor text, MSET with an odd count) gets exactly one
\* ErrorValue response with the message, the connection stays open unless the
\* socket fails, and a GET that follows it is answered from the store.
C1_CommandErrorIsolated ==
  [][\A c \in Conns : C1_Dispatch(c) /\ C1_Write(c) /\ C1_Next(c)]_vars

\* a command error was answered with an ErrorValue, and the GET after it on
\* the same connection with the stored value
C1_Witness ==
  \E c \in Conns :
    /\ nerr[c] = 1 /\ nreq[c] = 2 /\ nresp[c] = 2
    /\ pc[c] = "AWAIT_REQUEST"
    /\ wire[c] = Bulk(<<"v">>)

BadTagFrames == {<<"!">>, <<"x80">>, ArrayOf(2) \o Bulk(GET) \o <<"!">>}

BadTagClosed(c) == pc[c] = "CLOSED" /\ frame[c] \in BadTagFrames

\* the next step of connection d can be taken
Served(d) ==
  /\ pc[d] = "QUEUED" => ENABLED spawn(d)
  /\ pc[d] = "AWAIT_REQUEST" => ENABLED connection_handler_read(d)
  /\ pc[d] = "HAVE_REQUEST" => ENABLED connection_handler_dispatch(d)
  /\ pc[d] = "DISPATCHED" => ENABLED connection_handler_write(d)

C2_Others == \A c \in Conns : BadTagClosed(c) => \A d \in Conns \ {c} : Served(d)

C2_Fatal(c) ==
  (pc[c] = "AWAIT_REQUEST" /\ Moves(c) /\ frame'[c] \in BadTagFrames)
    => /\ pc'[c] = "CLOSED"
       /\ nreq'[c] = nreq[c]
       /\ nresp'[c] = nresp[c]
       /\ kv' = kv
       /\ OthersUntouched(c)

C2_Over(c) ==
  pc[c] = "CLOSED"
    => /\ pc'[c] = "CLOSED"
       /\ nreq'[c] = nreq[c]
       /\ nresp'[c] = nresp[c]
       /\ wire'[c] = wire[c]

\* C2: a tag byte outside the six, first or nested, ends its session for
\* good, changes neither the store nor any other connection, and leaves every
\* other connection able to take its next step (a queued one to be spawned).
C2_BadTagFatalAndContained ==
  /\ []C2_Others
  /\ [][\A c \in Conns : C2_Fatal(c) /\ C2_Over(c)]_vars

\* with a pool of one, the client was spawned and answered after the peer's
\* session had died of a bad tag
C2_Witness ==
  /\ max_clients = 1
  /\ BadTagClosed("peer")
  /\ exc["peer"] \in {"CommandError", "UnicodeDecodeError"}
  /\ nresp["client"] = 1

\* C3: a read that fails on a malformed frame leaves an ErrorValue response
\* on the wire before the session closes.
C3_MalformedFrameReported ==
  [][\A c \in Conns :
       (pc[c] = "AWAIT_REQUEST" /\ pc'[c] = "CLOSED" /\ exc'[c] # "Disconnect")
         => (wire'[c] # <<>> /\ wire'[c][1] = "-")]_vars

WrongArity ==
  { List(<<Str(GET)>>), List(<<Str(SET), K>>), List(<<Str(FLUSH), Str(<<"k">>)>>) }

\* C4: a registered command with the wrong number of arguments is answered
\* with an ErrorValue, the store unchanged and the session open.
C4_WrongArityRecoverable ==
  [][\A c \in Conns :
       (pc[c] = "HAVE_REQUEST" /\ Moves(c) /\ data[c] \in WrongArity)
         => /\ pc'[c] = "DISPATCHED"
            /\ resp'[c].t = "Error"
            /\ kv' = kv]_vars

C5_Counts ==
  \A c \in Conns :
    /\ nreq[c] - nresp[c] \in {0, 1}
    /\ pc[c] \in {"QUEUED", "AWAIT_REQUEST"} => nreq[c] = nresp[c]
    /\ pc[c] \in {"HAVE_REQUEST", "DISPATCHED"} => nreq[c] = nresp[c] + 1

C5_Cycle(c) ==
  /\ nreq'[c] # nreq[c]
       => pc[c] = "AWAIT_REQUEST" /\ nreq'[c] = nreq[c] + 1 /\ nresp[c] = nreq[c]
  /\ nresp'[c] # nresp[c]
       => /\ pc[c] = "DISPATCHED" /\ pc'[c] = "AWAIT_REQUEST"
          /\ nresp'[c] = nresp[c] + 1
          /\ nresp'[c] = nreq[c]
          /\ wire'[c] = write(resp[c]).bytes
  /\ (pc[c] = "HAVE_REQUEST" /\ Moves(c)) => nreq'[c] = nreq[c] /\ nresp'[c] = nresp[c]

\* C5: on one connection decodes and writes alternate: a request is decoded
\* only when every earlier one has its response written, one write follows
\* one decode, the k-th write is the response to the k-th request, and the
\* decodes are never more than one ahead of the writes.
C5_StrictAlternation ==
  /\ []C5_Counts
  /\ [][\A c \in Conns : C5_Cycle(c)]_vars

\* a second request is being answered on a connection
C5_Witness == \E c \in Conns : pc[c] = "DISPATCHED" /\ nreq[c] = 2 /\ nresp[c] = 1

\* C6: a read that finds the stream ended before the first byte of a request
\* ends the session by Disconnect, with nothing written or decoded and the
\* store as it was, and the session does nothing afterwards.
C6_CleanClose ==
  [][\A c \in Conns :
       /\ (pc[c] = "AWAIT_REQUEST" /\ Moves(c) /\ frame'[c] = <<>>)
            => /\ pc'[c] = "CLOSED"
               /\ exc'[c] = "Disconnect"
               /\ eof'[c]
               /\ wire'[c] = <<>>
               /\ nreq'[c] = nreq[c]
               /\ nresp'[c] = nresp[c]
               /\ kv' = kv
       /\ (pc[c] = "CLOSED" /\ exc[c] = "Disconnect")
            => /\ pc'[c] = "CLOSED"
               /\ exc'[c] = "Disconnect"
               /\ nreq'[c] = nreq[c]
               /\ nresp'[c] = nresp[c]]_vars

\* a session that answered a request ended on the peer's close
C6_Witness ==
  \E c \in Conns :
    /\ pc[c] = "CLOSED" /\ exc[c] = "Disconnect" /\ frame[c] = <<>>
    /\ nresp[c] = 1 /\ kv # EmptyStore

\* C7: Disconnect is raised only when the stream ends before the first byte
\* of a request, and no request is dispatched whose decoding needed the
\* stream to end.
C7_EndOfStreamInsideFrameIsMalformed ==
  \A c \in Conns :
    /\ (pc[c] = "CLOSED" /\ exc[c] = "Disconnect") => frame[c] = <<>>
    /\ pc[c] = "HAVE_REQUEST" => handle_request(frame[c], FALSE).k = "ok"

\* C8: decoding the bytes of an encoded value reads all of them and gives the
\* value back.
C8_RoundTrip == stage = "decoded" => decoded = Res("ok", value, <<>>)

NegativeLengthFrames ==
  { <<"$", "-", "2">> \o CRLF, <<"*", "-", "1">> \o CRLF, <<"%", "-", "1">> \o CRLF }

\* C9: no frame with a negative length or count (other than $-1) is decoded
\* into a request.
C9_NegativeLengthRejected ==
  \A c \in Conns : pc[c] = "HAVE_REQUEST" => frame[c] \notin NegativeLengthFrames

OddMset(d) ==
  /\ d.t = "list"
  /\ Len(d.xs) % 2 = 0
  /\ d.xs # <<>>
  /\ d.xs[1] = Str(MSET)

\* C10: MSET with an odd number of arguments is answered with an ErrorValue,
\* leaves the store as it was and the session open.
C10_MsetParity ==
  [][\A c \in Conns :
       (pc[c] = "HAVE_REQUEST" /\ Moves(c) /\ OddMset(data[c]))
         => /\ pc'[c] = "DISPATCHED"
            /\ exc'[c] = "none"
            /\ resp'[c] = Error(MsetEven)
            /\ kv' = kv]_vars

\* the odd MSET was refused on a store that holds something
C10_Witness ==
  \E c \in Conns :
    /\ pc[c] = "DISPATCHED" /\ resp[c] = Error(MsetEven)
    /\ kv # EmptyStore

\* the request being dispatched is the command cmd with n arguments
Calls(c, cmd, n) ==
  /\ pc[c] = "HAVE_REQUEST" /\ pc'[c] = "DISPATCHED"
  /\ data[c].t = "list" /\ Len(data[c].xs) = n + 1
  /\ data[c].xs[1] = Str(cmd)

\* the i-th argument of the request being dispatched
Arg(c, i) == data[c].xs[i + 1]

\* what the store holds under key: the value last stored there, None when
\* there is none
Held(store, key) == IF key \in DOMAIN store THEN store[key] ELSE None

\* the store differs from what it was at most under the keys of ks
SameBut(ks) ==
  /\ (DOMAIN kv') \ ks = (DOMAIN kv) \ ks
  /\ \A x \in (DOMAIN kv) \ ks : kv'[x] = kv[x]

\* the key of the last pair of an MSET is bound to its value
C11_Stores(c) ==
  /\ Calls(c, SET, 2) => Held(kv', Arg(c, 1)) = Arg(c, 2) /\ SameBut({Arg(c, 1)})
  /\ Calls(c, MSET, 4) =>
        /\ Held(kv', Arg(c, 3)) = Arg(c, 4)
        /\ Arg(c, 1) # Arg(c, 3) => Held(kv', Arg(c, 1)) = Arg(c, 2)
        /\ SameBut({Arg(c, 1), Arg(c, 3)})
  /\ Calls(c, DELETE, 1) => Arg(c, 1) \notin DOMAIN kv' /\ SameBut({Arg(c, 1)})
  /\ Calls(c, FLUSH, 0) => DOMAIN kv' = {}

C11_Reads(c) ==
  /\ Calls(c, GET, 1) => resp'[c] = Held(kv, Arg(c, 1)) /\ kv' = kv
  /\ Calls(c, MGET, 2) =>
        resp'[c] = List(<<Held(kv, Arg(c, 1)), Held(kv, Arg(c, 2))>>) /\ kv' = kv
  /\ (pc[c] = "DISPATCHED" /\ pc'[c] = "AWAIT_REQUEST") => wire'[c] = write(resp[c]).bytes

\* the store changes in no other step
C11_Frame ==
  kv' # kv => \E c \in Conns : \E cmd \in {SET, MSET, DELETE, FLUSH} :
                pc[c] = "HAVE_REQUEST" /\ data[c].xs[1] = Str(cmd)

\* the responses to SET k v, GET k, FLUSH, GET k
Yields ==
  << <<":", "1">> \o CRLF,
     <<"$", "1">> \o CRLF \o <<"v">> \o CRLF,
     <<":", "1">> \o CRLF,
     <<"$", "-", "1">> \o CRLF >>

\* no request of the other connection has been decoded, and the scripted one
\* has its n-th response
ScriptAt(n) ==
  /\ nreq["peer"] = 0
  /\ pc["client"] = "AWAIT_REQUEST"
  /\ nresp["client"] = n

C11_Scenario == \A n \in 1..Len(Script) : ScriptAt(n) => wire["client"] = Yields[n]

\* C11: GET k is answered with the value last stored under k by a SET or an
\* MSET of any session and not removed since by DELETE k or FLUSH, with null
\* when there is none, and MGET with these values in the order of its keys;
\* SET k v, GET k, FLUSH, GET k on one connection of an otherwise unused
\* server are answered :1, v, :1 and null.
C11_GetSemantics ==
  /\ []C11_Scenario
  /\ [][C11_Frame /\ \A c \in Conns : C11_Stores(c) /\ C11_Reads(c)]_vars

\* the scripted connection has the null of its second GET, the other having
\* sent nothing
C11_Witness == ScriptAt(4) /\ wire["client"] = <<"$", "-", "1">> \o CRLF /\ kv = EmptyStore

\* the step of connection c is the dispatch of a request with outcome r
DispatchedAs(c, r) ==
  /\ kv' = r.kv
  /\ r.k = "ok" => pc'[c] = "DISPATCHED" /\ resp'[c] = r.v
  /\ r.k = "CommandError" => pc'[c] = "DISPATCHED" /\ resp'[c] = Error(r.v.s)
  /\ r.k \notin {"ok", "CommandError"} => pc'[c] = "CLOSED" /\ exc'[c] = r.k

\* the outcome of the tokens sent as an Array of BulkStrings
AsArray(tokens, store) == get_response(handle_request(Request(tokens), FALSE).v, store)

C12_Decode(c, f) ==
  (pc[c] = "AWAIT_REQUEST" /\ Moves(c) /\ frame'[c] = f.frame)
    => pc'[c] = "HAVE_REQUEST" /\ data'[c] = f.data

C12_Dispatch(c, f) ==
  (pc[c] = "HAVE_REQUEST" /\ Moves(c) /\ data[c] = f.data)
    => DispatchedAs(c, AsArray(f.args, kv))

\* C12: a request sent as one SimpleString or BulkString of tokens separated
\* by whitespace, or as an Array with the command in any letter case, has the
\* response and the effect on the store of the Array of BulkStrings of the
\* same tokens with the command as the registry spells it.
C12_TextAndCase ==
  [][\A c \in Conns : \A f \in Forms : C12_Decode(c, f) /\ C12_Dispatch(c, f)]_vars

\* only the SimpleString "Set k v" can have bound k to v here
C12_Witness ==
  /\ nreq["client"] = 0
  /\ pc["peer"] = "DISPATCHED" /\ resp["peer"] = Integer(1)
  /\ K \in DOMAIN kv /\ kv[K] = V

\* an Array whose first element is not text
NotTextCommand(d) == d.t = "list" /\ d.xs # <<>> /\ d.xs[1].t # "str"

\* a registered command whose key is a sequence or a mapping
UnhashableKey(d) ==
  /\ d.t = "list" /\ Len(d.xs) = 2
  /\ d.xs[1] \in {Str(GET), Str(DELETE)}
  /\ ~Hashable(d.xs[2])

\* C13: a request decoded from a well-formed frame whose command is not text,
\* or whose key is a sequence or a mapping, gets its response and leaves the
\* session open.
C13_WellFormedNeverFatal ==
  [][\A c \in Conns :
       (/\ pc[c] = "HAVE_REQUEST" /\ Moves(c)
        /\ handle_request(frame[c], FALSE).k = "ok"
        /\ NotTextCommand(data[c]) \/ UnhashableKey(data[c]))
         => /\ pc'[c] = "DISPATCHED"
            /\ exc'[c] = "none"]_vars

\* the request connection c holds is one get_response returns or raises
\* CommandError for
Answerable(c) ==
  /\ pc[c] = "HAVE_REQUEST"
  /\ get_response(data[c], kv).k \in {"ok", "CommandError"}

\* the response is on the wire, or the socket failed
Answered(c) ==
  \/ pc[c] = "AWAIT_REQUEST" /\ wire[c] # <<>>
  \/ exc[c] = "OSError"

\* C14: whatever the other connection does, waiting for its peer for ever or
\* ended in any way, a decoded request whose handler returns or raises
\* CommandError has its response written unless the socket fails.
C14_Progress == \A c \in Conns : Answerable(c) ~> Answered(c)

\* the client has both its responses beside a session that an uncaught
\* TypeError or AttributeError ended
C14_Witness ==
  /\ pc["peer"] = "CLOSED" /\ exc["peer"] \in {"TypeError", "AttributeError"}
  /\ pc["client"] = "AWAIT_REQUEST" /\ nresp["client"] = 2 /\ wire["client"] # <<>>

\* an MSET of pairs
MsetOf(d) ==
  /\ d.t = "list" /\ d.xs # <<>>
  /\ d.xs[1] = Str(MSET)
  /\ Len(d.xs) % 2 = 1

\* the pairs of an MSET: the places of its keys in the request
PairsOf(d) == {i \in 2..Len(d.xs) : i % 2 = 0}

\* the store after the step holds every pair of the MSET, a key given twice
\* with the value of its last pair
AllWritten(d) ==
  \A i \in PairsOf(d) :
    /\ d.xs[i] \in DOMAIN kv'
    /\ (\A j \in PairsOf(d) : j > i => d.xs[j] # d.xs[i]) => kv'[d.xs[i]] = d.xs[i + 1]

\* C15: a step that dispatches an MSET leaves to every other session a store
\* with all of its pairs written or none, and a step that dispatches FLUSH an
\* empty store, its reply the number of keys that were there.
C15_HandlersAtomic ==
  [][\A c \in Conns :
       /\ (pc[c] = "HAVE_REQUEST" /\ Moves(c) /\ MsetOf(data[c]))
            => (kv' = kv \/ AllWritten(data[c]))
       /\ Calls(c, FLUSH, 0)
            => kv' = EmptyStore /\ resp'[c] = Integer(Cardinality(DOMAIN kv))]_vars

\* C16: the response a dispatch leaves to be written is an ErrorValue exactly
\* when get_response raised CommandError.
C16_ErrorIffCommandError ==
  [][\A c \in Conns :
       (pc[c] = "HAVE_REQUEST" /\ pc'[c] = "DISPATCHED")
         => (resp'[c].t = "Error" <=> nerr'[c] = nerr[c] + 1)]_vars

\* text, integer, null, ErrorValue, or a sequence or mapping of such values
RECURSIVE Encodable(_)
Encodable(v) ==
  \/ v.t \in {"str", "bytes", "int", "NoneType", "Error"}
  \/ /\ v.t \in {"list", "tuple", "dict"}
     /\ \A i \in 1..Len(v.xs) : Encodable(v.xs[i])

C17_Shapes ==
  /\ \A k \in DOMAIN kv : Encodable(kv[k]) /\ write(kv[k]).k = "ok"
  /\ \A c \in Conns :
       pc[c] = "DISPATCHED" => Encodable(resp[c]) /\ write(resp[c]).k = "ok"

\* C17: every value in the store and every response to be written is of a
\* shape the encoder accepts, and the write of a response ends a session
\* only when the socket fails.
C17_ResponsesEncodable ==
  /\ []C17_Shapes
  /\ [][\A c \in Conns :
          (pc[c] = "DISPATCHED" /\ Moves(c))
            => \/ pc'[c] = "AWAIT_REQUEST" /\ exc'[c] = "none"
               \/ pc'[c] = "CLOSED" /\ exc'[c] = "OSError"]_vars

\* an Error that arrived as a value is held in the store, and a list of
\* stored values has been written
C17_Witness ==
  /\ \E k \in DOMAIN kv : kv[k].t = "Error"
  /\ \E c \in Conns : pc[c] = "AWAIT_REQUEST" /\ wire[c] # <<>> /\ wire[c][1] = "*"

C18_Bound ==
  /\ Cardinality(Running) <= max_clients
  /\ \A c \in Conns :
       pc[c] = "QUEUED" => (ENABLED spawn(c) <=> Cardinality(Running) < max_clients)

\* C18: the sessions running are never more than max_clients; a connection
\* gets its session only while fewer are running, so one that arrives at a
\* full pool waits, and is admitted once a session has ended, however it
\* ended; the size of the pool does not change.
C18_PoolBound ==
  /\ []C18_Bound
  /\ [][/\ max_clients' = max_clients
        /\ \A c \in Conns :
             (pc[c] = "QUEUED" /\ Moves(c))
               => pc'[c] = "AWAIT_REQUEST" /\ Cardinality(Running) < max_clients]_vars

\* with a pool of one, the client got its session after the peer's had ended
\* by an uncaught exception
C18_Witness ==
  /\ max_clients = 1
  /\ pc["peer"] = "CLOSED" /\ exc["peer"] \notin {"none", "Disconnect", "OSError"}
  /\ pc["client"] = "HAVE_REQUEST"

\* the keys of an MSET
KeysOf(d) == {d.xs[i] : i \in PairsOf(d)}

C19_Replies(c) ==
  /\ Calls(c, SET, 2) =>
        /\ resp'[c] = Integer(1)
        /\ Arg(c, 1) \in DOMAIN kv' /\ kv'[Arg(c, 1)] = Arg(c, 2)
        /\ SameBut({Arg(c, 1)})
  /\ Calls(c, DELETE, 1) =>
        IF Arg(c, 1) \in DOMAIN kv
          THEN resp'[c] = Integer(1) /\ Arg(c, 1) \notin DOMAIN kv' /\ SameBut({Arg(c, 1)})
          ELSE resp'[c] = Integer(0) /\ kv' = kv
  /\ Calls(c, FLUSH, 0) =>
        resp'[c] = Integer(Cardinality(DOMAIN kv)) /\ DOMAIN kv' = {}
  /\ (pc[c] = "HAVE_REQUEST" /\ pc'[c] = "DISPATCHED" /\ MsetOf(data[c])) =>
        /\ resp'[c] = Integer(Cardinality(PairsOf(data[c])))
        /\ AllWritten(data[c])
        /\ SameBut(KeysOf(data[c]))

\* C19: SET replies 1 and binds its key; DELETE replies 1 and removes a key
\* that was there, 0 and changes nothing for one that was not; FLUSH replies
\* the number of keys there were and leaves none; MSET replies the number of
\* its pairs, a key given twice counted twice and bound to its last value,
\* and changes no other key.
C19_IntegerReplies == [][\A c \in Conns : C19_Replies(c)]_vars

\* MSET k v k w was answered 2 and left k bound to w
C19_Witness ==
  /\ pc["peer"] = "DISPATCHED" /\ resp["peer"] = Integer(2)
  /\ DOMAIN kv = {K} /\ kv[K] = W

\* the store changes only in the dispatch of a request
C20_Kept == kv' # kv => \E c \in Conns : pc[c] = "HAVE_REQUEST" /\ Moves(c)

\* a GET is answered from the one store, whichever session wrote it and
\* whatever became of that session
C20_Read(c) == Calls(c, GET, 1) => resp'[c] = Held(kv, Arg(c, 1))

\* a session that starts or ends leaves the store as it is
C20_StartAndEnd(c) ==
  /\ (pc[c] = "QUEUED" /\ Moves(c)) => kv' = kv
  /\ (pc[c] \in {"AWAIT_REQUEST", "DISPATCHED"} /\ pc'[c] = "CLOSED") => kv' = kv

\* C20: the store is one for all sessions and outlives them: only the
\* dispatch of a request changes it, a session that starts or ends leaves it
\* alone, and a GET of any session is answered with what the store holds,
\* whichever session wrote it and whether that session is still open.
C20_StoreOutlivesSessions ==
  [][C20_Kept /\ \A c \in Conns : C20_Read(c) /\ C20_StartAndEnd(c)]_vars

\* with a pool of one the client's session began when the peer's had ended
\* by an uncaught exception, and its GET k was answered with the w that only
\* the peer's MSET binds k to
C20_Witness ==
  /\ max_clients = 1
  /\ pc["peer"] = "CLOSED" /\ exc["peer"] \notin {"none", "Disconnect", "OSError"}
  /\ pc["client"] = "AWAIT_REQUEST" /\ wire["client"] = Bulk(<<"w">>)

====
